---- MODULE Spec2Model ----
(***************************************************************************)
(* Model of src/demand_planner_new.py: one run of the script from the      *)
(* uploaded sales table to the reported skip list.  A run is a sequence of *)
(* steps (reshape, parse dates, validate, forecast loop, aggregate, risk   *)
(* analysis, reconciliation, skip report); the uploaded files and the      *)
(* slider value are fixed when the run starts.                             *)
(*                                                                         *)
(* Encodings.  A spreadsheet cell is <<>> when it is missing (NaN) and     *)
(* <<v>> when it holds the number v.  A column label is the sequence of    *)
(* its characters.  A date is the number of days since 2024-01-01.  An     *)
(* optional file is <<>> (not uploaded) or <<contents>>.                   *)
(***************************************************************************)
EXTENDS Integers, Sequences, FiniteSets, TLC

VARIABLES pc, uploaded_file, inv_file, bo_file, os_file, forecast_horizon,
          df, valid_pns, idx, forecasts, skipped_pns, fitted,
          all_forecast_df, agg_monthly, merged, classified, skip_report

vars == <<pc, uploaded_file, inv_file, bo_file, os_file, forecast_horizon,
          df, valid_pns, idx, forecasts, skipped_pns, fitted,
          all_forecast_df, agg_monthly, merged, classified, skip_report>>

MIN_DATA_POINTS == 3
HorizonMin == 1
HorizonMax == 12
DaysPerPeriod == 30

\* Number of part numbers that occur in the uploaded tables.
NumPNs == 3

PNs == 1..NumPNs

NaN == <<>>
IsNaN(c) == c = <<>>
Num(v) == <<v>>

----------------------------------------------------------------------------
(* Generic helpers: what the pandas primitives used by the script compute. *)

RECURSIVE SortedSeq(_)
SortedSeq(S) ==
    IF S = {} THEN <<>>
    ELSE LET m == CHOOSE x \in S : \A y \in S : x <= y
         IN <<m>> \o SortedSeq(S \ {m})

RECURSIVE SumSeq(_)
SumSeq(s) == IF s = <<>> THEN 0 ELSE Head(s) + SumSeq(Tail(s))

RECURSIVE Concat(_)
Concat(ss) == IF ss = <<>> THEN <<>> ELSE Head(ss) \o Concat(Tail(ss))

Range(s) == {s[k] : k \in DOMAIN s}

\* The rows of a frame given row by row, as a sequence.
Rows(s) == SubSeq(s, 1, Len(s))

\* DataFrame.tail(n)
TailN(s, n) ==
    IF Len(s) <= n THEN s ELSE [k \in 1..n |-> s[Len(s) - n + k]]

\* Series.fillna(0)
FillNa0(c) == IF IsNaN(c) THEN 0 ELSE c[1]

----------------------------------------------------------------------------
(* Calendar: pd.to_datetime(format="%Y-%m"), daily date ranges and the     *)
(* month-start ("MS") bins of resample.                                    *)

Digits == {"0", "1", "2", "3", "4", "5", "6", "7", "8", "9"}

DigitVal(c) ==
    CASE c = "0" -> 0 [] c = "1" -> 1 [] c = "2" -> 2 [] c = "3" -> 3
      [] c = "4" -> 4 [] c = "5" -> 5 [] c = "6" -> 6 [] c = "7" -> 7
      [] c = "8" -> 8 [] c = "9" -> 9

IsLeap(y) == y % 4 = 0 /\ (y % 100 # 0 \/ y % 400 = 0)

DaysInMonth(y, m) ==
    IF m = 2 THEN (IF IsLeap(y) THEN 29 ELSE 28)
    ELSE IF m \in {4, 6, 9, 11} THEN 30 ELSE 31

\* Months are indexed from 0 = 2024-01.
MonthIdxs == 0..60
YearOf(mi) == 2024 + (mi \div 12)
MonthOfYear(mi) == (mi % 12) + 1

\* Day numbers of the first days of months 0..n.
RECURSIVE MonthStartsUpTo(_)
MonthStartsUpTo(n) ==
    IF n = 0 THEN <<0>>
    ELSE LET prev == MonthStartsUpTo(n - 1)
         IN Append(prev, prev[n] + DaysInMonth(YearOf(n - 1), MonthOfYear(n - 1)))

MonthStarts == MonthStartsUpTo(61)

\* Day number of the first day of month mi.
MonthStart(mi) == MonthStarts[mi + 1]

\* The month a day falls in.
MonthOfDay(d) ==
    CHOOSE mi \in MonthIdxs : MonthStart(mi) <= d /\ d < MonthStart(mi + 1)

\* str(col).startswith("2024") or str(col).startswith("2025")
StartsWith(label, prefix) ==
    Len(label) >= Len(prefix) /\ SubSeq(label, 1, Len(prefix)) = prefix

IsDateCol(label) ==
    StartsWith(label, <<"2", "0", "2", "4">>) \/ StartsWith(label, <<"2", "0", "2", "5">>)

\* pd.to_datetime(label, format="%Y-%m"): <<day>> of the first of the month,
\* or <<>> when the label does not match the format (ValueError).  Only
\* labels selected by IsDateCol reach it, so a label that parses has year
\* 2024 or 2025.
ParseYM(label) ==
    IF /\ Len(label) \in {6, 7}
       /\ \A k \in 1..4 : label[k] \in Digits
       /\ label[5] = "-"
       /\ \A k \in 6..Len(label) : label[k] \in Digits
    THEN LET y == 1000 * DigitVal(label[1]) + 100 * DigitVal(label[2])
                  + 10 * DigitVal(label[3]) + DigitVal(label[4])
             m == IF Len(label) = 6 THEN DigitVal(label[6])
                  ELSE 10 * DigitVal(label[6]) + DigitVal(label[7])
         IN IF m \in 1..12 /\ y \in 2024..2025
            THEN <<MonthStart((y - 2024) * 12 + (m - 1))>>
            ELSE <<>>
    ELSE <<>>

----------------------------------------------------------------------------
(* Reshaper: lines 18-29.                                                  *)

DateCols(table) ==
    SelectSeq([k \in 1..Len(table.cols) |-> k], LAMBDA k : IsDateCol(table.cols[k]))

\* df_raw.melt(id_vars=["Part Number"], value_vars=date_cols): column by
\* column, and within a column row by row.
Melt(table) ==
    LET dc == DateCols(table)
        nr == Len(table.rows)
    IN Rows([k \in 1..(Len(dc) * nr) |->
           LET c == dc[((k - 1) \div nr) + 1]
               r == table.rows[((k - 1) % nr) + 1]
           IN [PartNumber |-> r.pn, Month |-> table.cols[c], SalesQty |-> r.vals[c]]])

\* df.dropna(subset=["Part Number", "Sales Qty"]) and the rename to PN.
DropNa(melted) ==
    LET kept == SelectSeq(melted, LAMBDA r : ~IsNaN(r.PartNumber) /\ ~IsNaN(r.SalesQty))
    IN Rows([k \in 1..Len(kept) |->
           [PN |-> kept[k].PartNumber[1], Month |-> kept[k].Month,
            SalesQty |-> kept[k].SalesQty[1]]])

Reshape(table) == DropNa(Melt(table))

\* pd.to_datetime(df["Month"], format="%Y-%m") raises on the first label of
\* a remaining row that does not parse.
ParseFails(d) == \E k \in DOMAIN d : ParseYM(d[k].Month) = <<>>

WithDates(d) ==
    Rows([k \in DOMAIN d |->
        [PN |-> d[k].PN, Month |-> d[k].Month, SalesQty |-> d[k].SalesQty,
         Date |-> ParseYM(d[k].Month)[1]]])

----------------------------------------------------------------------------
(* Series validation: lines 35-38 and 49-55.                               *)

EntitiesOf(d) == {d[k].PN : k \in DOMAIN d}

DatesOf(d, pn) == {d[k].Date : k \in {j \in DOMAIN d : d[j].PN = pn}}

\* [pn for pn, group in df.groupby("PN") if group["Date"].nunique() >= MIN_DATA_POINTS]
ValidPNs(d) ==
    SortedSeq({pn \in EntitiesOf(d) : Cardinality(DatesOf(d, pn)) >= MIN_DATA_POINTS})

\* group.groupby("Date")["Sales Qty"].sum().reset_index(), columns ds, y.
Grouped(d, pn) ==
    LET rows == SelectSeq(d, LAMBDA r : r.PN = pn)
        ds == SortedSeq(DatesOf(d, pn))
    IN Rows([k \in 1..Len(ds) |->
           LET same == SelectSeq(rows, LAMBDA r : r.Date = ds[k])
           IN [ds |-> ds[k], y |-> SumSeq([j \in 1..Len(same) |-> same[j].SalesQty])]])

\* Mutant of PreCheckSkips: the nunique test is left out.
PreCheckLengthOnly(g) == Len(g) < MIN_DATA_POINTS

\* len(df_grouped) < MIN_DATA_POINTS or df_grouped['y'].nunique() < 2
PreCheckSkips(g) ==
    Len(g) < MIN_DATA_POINTS \/ Cardinality({g[k].y : k \in DOMAIN g}) < 2

----------------------------------------------------------------------------
(* Forecast orchestration: lines 57-71.                                    *)
(* Prophet is an external library; the model stands a deterministic oracle *)
(* in for it: a straight line through the last observation whose slope has *)
(* the sign of the change over the history.  Whether a fit or predict      *)
(* raises is left open (see ForecastRaise).                                *)

Sign(x) == IF x > 0 THEN 1 ELSE IF x < 0 THEN -1 ELSE 0

OracleYhat(g, d) ==
    g[Len(g)].y + 2 * Sign(g[Len(g)].y - g[1].y) * (d - g[Len(g)].ds)

\* Last date of model.make_future_dataframe(periods=H * 30, freq='D').
LastFutureDay(g, H) == g[Len(g)].ds + H * DaysPerPeriod

\* The dates of the future frame: the history dates, then the H * 30 days
\* after the last history date.
InFutureFrame(g, H, d) ==
    \/ \E k \in DOMAIN g : g[k].ds = d
    \/ g[Len(g)].ds < d /\ d <= LastFutureDay(g, H)

\* One row of forecast[["ds","yhat"]].set_index("ds").resample("MS").mean():
\* the mean of yhat over the frame's dates in month mi, NaN for a month
\* without dates.
ResampleRow(g, H, mi) ==
    LET monthDays == [j \in 1..(MonthStart(mi + 1) - MonthStart(mi)) |-> MonthStart(mi) + j - 1]
        days == SelectSeq(monthDays, LAMBDA d : InFutureFrame(g, H, d))
    IN [ds |-> MonthStart(mi),
        yhat |-> IF days = <<>> THEN NaN
                 ELSE Num(SumSeq([j \in 1..Len(days) |-> OracleYhat(g, days[j])]) \div Len(days))]

\* resample("MS") has one row per month from the first to the last date.
ResampleMS(g, H) ==
    LET firstM == MonthOfDay(g[1].ds)
        lastM == MonthOfDay(LastFutureDay(g, H))
    IN [k \in 1..(lastM - firstM + 1) |-> ResampleRow(g, H, firstM + k - 1)]

\* forecast_monthly: .tail(forecast_horizon), then the PN column.
ForecastMonthly(g, H, pn) ==
    LET kept == TailN(ResampleMS(g, H), H)
    IN Rows([k \in 1..Len(kept) |-> [ds |-> kept[k].ds, yhat |-> kept[k].yhat, PN |-> pn]])

----------------------------------------------------------------------------
(* Aggregator: lines 78-93.                                                *)

\* pd.concat(forecasts, ignore_index=True) and the rename of ds, yhat.
AllForecastDf(fs) ==
    LET rows == Concat(fs)
    IN Rows([k \in 1..Len(rows) |->
           [Month |-> rows[k].ds, ForecastQty |-> rows[k].yhat, PN |-> rows[k].PN]])

\* Mutant of AggMonthly: .first() in place of .sum().
AggMonthlyFirst(all) ==
    LET months == SortedSeq({all[k].Month : k \in DOMAIN all})
    IN Rows([k \in 1..Len(months) |->
           LET same == SelectSeq(all, LAMBDA r : r.Month = months[k])
           IN [Month |-> months[k], ForecastQty |-> FillNa0(same[1].ForecastQty)]])

\* all_forecast_df.groupby("Month")["Forecast Qty"].sum().reset_index()
AggMonthly(all) ==
    LET months == SortedSeq({all[k].Month : k \in DOMAIN all})
    IN Rows([k \in 1..Len(months) |->
           LET same == SelectSeq(all, LAMBDA r : r.Month = months[k])
           IN [Month |-> months[k],
               ForecastQty |-> SumSeq([j \in 1..Len(same) |-> FillNa0(same[j].ForecastQty)])]])

----------------------------------------------------------------------------
(* Risk analysis: lines 114-130.                                           *)

\* all_forecast_df.groupby("PN").apply(lambda x: x.sort_values("Month").iloc[-1])
LatestForecast(all) ==
    LET pns == SortedSeq({all[k].PN : k \in DOMAIN all})
    IN Rows([k \in 1..Len(pns) |->
           CHOOSE r \in Range(all) :
               /\ r.PN = pns[k]
               /\ \A q \in Range(all) : q.PN = pns[k] => q.Month <= r.Month])

\* Mutant of MergeInv: how="inner".
MergeInvInner(left, inv) ==
    Concat([k \in 1..Len(left) |->
        LET hits == SelectSeq(inv, LAMBDA r : r.PN = left[k].PN)
        IN [j \in 1..Len(hits) |->
               [PN |-> left[k].PN, Month |-> left[k].Month,
                ForecastQty |-> left[k].ForecastQty,
                OnHand |-> hits[j].OnHand, InTransit |-> hits[j].InTransit]]])

\* pd.merge(left, inv_df, how="left", on="PN")
MergeInv(left, inv) ==
    Concat([k \in 1..Len(left) |->
        LET hits == SelectSeq(inv, LAMBDA r : r.PN = left[k].PN)
        IN IF hits = <<>>
           THEN <<[PN |-> left[k].PN, Month |-> left[k].Month,
                   ForecastQty |-> left[k].ForecastQty,
                   OnHand |-> NaN, InTransit |-> NaN]>>
           ELSE [j \in 1..Len(hits) |->
                   [PN |-> left[k].PN, Month |-> left[k].Month,
                    ForecastQty |-> left[k].ForecastQty,
                    OnHand |-> hits[j].OnHand, InTransit |-> hits[j].InTransit]]])

\* pd.merge(merged, bo_df, how="left", on="PN")
MergeBo(left, bo) ==
    Concat([k \in 1..Len(left) |->
        LET hits == SelectSeq(bo, LAMBDA r : r.PN = left[k].PN)
        IN IF hits = <<>>
           THEN <<[PN |-> left[k].PN, Month |-> left[k].Month,
                   ForecastQty |-> left[k].ForecastQty,
                   OnHand |-> left[k].OnHand, InTransit |-> left[k].InTransit,
                   Backorder |-> NaN]>>
           ELSE [j \in 1..Len(hits) |->
                   [PN |-> left[k].PN, Month |-> left[k].Month,
                    ForecastQty |-> left[k].ForecastQty,
                    OnHand |-> left[k].OnHand, InTransit |-> left[k].InTransit,
                    Backorder |-> hits[j].Backorder]]])

\* (On Hand + In Transit) - (Backorder + Forecast Qty)
OverstockRisk(onHand, inTransit, backorder, forecastQty) ==
    (onHand + inTransit) - (backorder + forecastQty)

\* Mutant of OverstockFlag: >= in place of >.
OverstockFlagNonNegative(risk) == risk >= 0

\* merged["Overstock Risk"] > 0
OverstockFlag(risk) == risk > 0

\* Lines 124-130 on one merged row: the three fillna(0), then risk and flag.
\* A NaN forecast gives a NaN risk, and NaN > 0 is False.
RiskRow(r) ==
    LET onHand == FillNa0(r.OnHand)
        inTransit == FillNa0(r.InTransit)
        backorder == FillNa0(r.Backorder)
        risk == IF IsNaN(r.ForecastQty) THEN NaN
                ELSE Num(OverstockRisk(onHand, inTransit, backorder, r.ForecastQty[1]))
    IN [PN |-> r.PN, Month |-> r.Month, ForecastQty |-> r.ForecastQty,
        OnHand |-> onHand, InTransit |-> inTransit, Backorder |-> backorder,
        OverstockRisk |-> risk,
        OverstockFlag |-> IF IsNaN(risk) THEN FALSE ELSE OverstockFlag(risk[1])]

RiskTable(all, inv, bo) ==
    LET m == MergeBo(MergeInv(LatestForecast(all), inv), bo)
    IN Rows([k \in 1..Len(m) |-> RiskRow(m[k])])

----------------------------------------------------------------------------
(* Reconciliation: lines 138-156.                                          *)

\* set(os_df.dropna(subset=["PN"])["PN"].unique())
OsFlagged(os) == {os[k][1] : k \in {j \in DOMAIN os : ~IsNaN(os[j])}}

\* Mutant of classify: the OS-only branch is missing.
classifyWithoutOsOnly(overstockFlag, osFlag) ==
    IF overstockFlag /\ osFlag THEN "Confirmed Overstock (AI + OS)"
    ELSE IF overstockFlag THEN "New Overstock (AI only)"
    ELSE "Clear"

classify(overstockFlag, osFlag) ==
    IF overstockFlag /\ osFlag THEN "Confirmed Overstock (AI + OS)"
    ELSE IF overstockFlag THEN "New Overstock (AI only)"
    ELSE IF osFlag THEN "Previously Flagged (OS only)"
    ELSE "Clear"

Reconcile(m, os) ==
    Rows([k \in 1..Len(m) |->
        LET osFlag == m[k].PN \in OsFlagged(os)
        IN [PN |-> m[k].PN, Month |-> m[k].Month, ForecastQty |-> m[k].ForecastQty,
            OnHand |-> m[k].OnHand, InTransit |-> m[k].InTransit,
            Backorder |-> m[k].Backorder, OverstockRisk |-> m[k].OverstockRisk,
            OverstockFlag |-> m[k].OverstockFlag, OSFlag |-> osFlag,
            CombinedStatus |-> classify(m[k].OverstockFlag, osFlag)]])

----------------------------------------------------------------------------
(* The uploads a run starts from.                                          *)

YM(y3, y4, m1, m2) == <<"2", "0", y3, y4, "-", m1, m2>>

ColsSpring == <<YM("2","4","0","1"), YM("2","4","0","2"), YM("2","4","0","3"), YM("2","4","0","4")>>
ColsWinter == <<YM("2","4","1","1"), YM("2","4","1","2"), YM("2","5","0","1"), YM("2","5","0","2")>>
\* A column the Reshaper ignores, then three months.
ColsTotal == <<<<"T","o","t","a","l">>, YM("2","4","0","1"), YM("2","4","0","2"), YM("2","4","0","3")>>
\* The third label starts with 2024 and is no calendar month.
ColsBad == <<YM("2","4","0","1"), YM("2","4","0","2"), YM("2","4","1","3"), YM("2","4","0","3")>>

ColumnSets == {ColsSpring, ColsWinter, ColsTotal, ColsBad}

\* Rows of quantities, one cell per column.
ProfUp == <<Num(10), Num(20), Num(30), Num(40)>>
ProfGap == <<Num(10), Num(20), NaN, Num(40)>>
ProfShort == <<Num(10), Num(20), Num(30), NaN>>
ProfConst == <<Num(10), Num(10), Num(10), Num(10)>>
ProfTwo == <<NaN, Num(10), NaN, Num(20)>>
ProfNone == <<NaN, NaN, NaN, NaN>>
ProfMirror == <<Num(40), Num(30), Num(20), Num(10)>>
ProfOdd == <<Num(10), NaN, Num(20), NaN>>
Prof50 == <<Num(50), Num(20), NaN, Num(50)>>
Prof150 == <<Num(150), Num(20), NaN, Num(150)>>
Prof110 == <<Num(110), Num(20), NaN, Num(110)>>

Profiles == {ProfUp, ProfGap, ProfShort, ProfConst, ProfTwo, ProfNone}

\* A second row for part 1, or a row without a part number.
ExtraRows ==
    { <<>>,
      <<[pn |-> Num(1), vals |-> ProfMirror]>>,
      <<[pn |-> Num(1), vals |-> ProfOdd]>>,
      <<[pn |-> NaN, vals |-> ProfUp]>> }

\* The wide table with one row per part (prof[pn]) followed by the extra rows.
TableOf(cols, prof, extra) ==
    [cols |-> cols,
     rows |-> Rows([pn \in PNs |-> [pn |-> Num(pn), vals |-> prof[pn]]]) \o extra]

InvRec(pn, onHand, inTransit) == [PN |-> pn, OnHand |-> onHand, InTransit |-> inTransit]
BoRec(pn, backorder) == [PN |-> pn, Backorder |-> backorder]

StdInv == <<InvRec(1, Num(100), Num(20)), InvRec(2, NaN, Num(20))>>
StdBo == <<BoRec(1, Num(10))>>
StdOs == <<Num(1), NaN, Num(2)>>

\* One optional record per part, in part order.
InvPerPart == {NaN, <<Num(100), Num(20)>>, <<NaN, Num(20)>>}
BoPerPart == {NaN, <<Num(10)>>, <<NaN>>}

InvOf(choice) ==
    Concat([pn \in PNs |-> IF IsNaN(choice[pn]) THEN <<>>
                           ELSE <<InvRec(pn, choice[pn][1], choice[pn][2])>>])
BoOf(choice) ==
    Concat([pn \in PNs |-> IF IsNaN(choice[pn]) THEN <<>>
                           ELSE <<BoRec(pn, choice[pn][1])>>])

InvTables == {InvOf(c) : c \in [PNs -> InvPerPart]}
             \cup {<<InvRec(1, Num(100), Num(20)), InvRec(1, Num(5), Num(5))>>}
BoTables == {BoOf(c) : c \in [PNs -> BoPerPart]}
            \cup {<<BoRec(2, Num(10)), BoRec(2, Num(200))>>}
\* Two inventory records each for parts 1 and 3.
InvTwice == <<InvRec(1, Num(100), Num(20)), InvRec(1, Num(5), Num(5)),
              InvRec(3, Num(100), Num(20)), InvRec(3, Num(5), Num(5))>>
OsTables == {<<>>, <<Num(1)>>, <<NaN, Num(2)>>, <<Num(1), Num(1), Num(3)>>,
             <<Num(1), Num(2), Num(3)>>}

Scenario(table, H, inv, bo, os) ==
    [table |-> table, H |-> H, inv |-> inv, bo |-> bo, os |-> os]

\* Every combination of histories, the other uploads fixed.
BatchScenarios ==
    {Scenario(<<TableOf(ColsSpring, prof, <<>>)>>, 2, <<StdInv>>, <<StdBo>>, <<StdOs>>) :
        prof \in [PNs -> Profiles]}

\* Every column set and extra row.
ShapeScenarios ==
    {Scenario(<<TableOf(x[1], [pn \in PNs |-> IF pn = 1 THEN x[3]
                                              ELSE IF pn = 2 THEN ProfGap ELSE ProfTwo], x[2])>>,
              1, <<StdInv>>, <<StdBo>>, <<StdOs>>) :
        x \in ColumnSets \X ExtraRows \X Profiles}

\* Every slider value.
HorizonScenarios ==
    {Scenario(<<TableOf(x[1], [pn \in PNs |-> IF pn = 1 THEN x[2]
                                              ELSE IF pn = 2 THEN ProfUp ELSE ProfNone], <<>>)>>,
              x[3], <<StdInv>>, <<StdBo>>, NaN) :
        x \in {ColsSpring, ColsWinter, ColsTotal} \X {ProfUp, ProfShort} \X (HorizonMin..HorizonMax)}

\* Every inventory, backorder and flag upload, for three histories whose
\* forecasts are level at 50, 150 and 110.
RiskTable3 ==
    TableOf(ColsSpring, [pn \in PNs |-> IF pn = 1 THEN Prof50
                                        ELSE IF pn = 2 THEN Prof150
                                        ELSE IF pn = 3 THEN Prof110 ELSE ProfTwo], <<>>)

RiskScenarios ==
    {Scenario(<<RiskTable3>>, 1, <<x[1]>>, <<x[2]>>, <<x[3]>>) :
        x \in (InvTables \X {StdBo, <<>>, <<BoRec(1, Num(10)), BoRec(2, Num(10)), BoRec(3, Num(10))>>}
                  \X {StdOs, <<>>})
              \cup ({StdInv, <<InvRec(3, Num(100), Num(20))>>} \X BoTables \X {StdOs, <<>>})
              \cup ({StdInv, InvTwice, <<InvRec(3, Num(100), Num(20))>>} \X {StdBo} \X OsTables)}
    \cup {Scenario(<<RiskTable3>>, 1, x[1], x[2], x[3]) :
            x \in {NaN, <<StdInv>>} \X {NaN, <<StdBo>>} \X {NaN, <<StdOs>>}}

Scenarios ==
    BatchScenarios \cup ShapeScenarios \cup HorizonScenarios \cup RiskScenarios
    \cup {Scenario(NaN, 6, NaN, NaN, NaN)}

----------------------------------------------------------------------------
(* The run.                                                                *)

Init ==
    \E sc \in Scenarios :
        /\ uploaded_file = sc.table
        /\ inv_file = sc.inv
        /\ bo_file = sc.bo
        /\ os_file = sc.os
        /\ forecast_horizon = sc.H
        /\ pc = "start"
        /\ df = <<>>
        /\ valid_pns = <<>>
        /\ idx = 1
        /\ forecasts = <<>>
        /\ skipped_pns = <<>>
        /\ fitted = {}
        /\ all_forecast_df = <<>>
        /\ agg_monthly = <<>>
        /\ merged = <<>>
        /\ classified = FALSE
        /\ skip_report = <<>>

\* Line 17, else branch at 181: nothing uploaded.
NoUpload ==
    /\ pc = "start"
    /\ uploaded_file = <<>>
    /\ pc' = "done"
    /\ UNCHANGED <<uploaded_file, inv_file, bo_file, os_file, forecast_horizon,
                   df, valid_pns, idx, forecasts, skipped_pns, fitted,
                   all_forecast_df, agg_monthly, merged, classified, skip_report>>

\* Lines 18-28: select the date columns, melt, drop missing, rename.
ReshapeStep ==
    /\ pc = "start"
    /\ uploaded_file # <<>>
    /\ df' = Reshape(uploaded_file[1])
    /\ pc' = "parse"
    /\ UNCHANGED <<uploaded_file, inv_file, bo_file, os_file, forecast_horizon,
                   valid_pns, idx, forecasts, skipped_pns, fitted,
                   all_forecast_df, agg_monthly, merged, classified, skip_report>>

\* Line 29, to_datetime raises: the run ends with the exception.
ParseDatesError ==
    /\ pc = "parse"
    /\ ParseFails(df)
    /\ pc' = "error"
    /\ UNCHANGED <<uploaded_file, inv_file, bo_file, os_file, forecast_horizon,
                   df, valid_pns, idx, forecasts, skipped_pns, fitted,
                   all_forecast_df, agg_monthly, merged, classified, skip_report>>

\* Line 29.
ParseDatesOk ==
    /\ pc = "parse"
    /\ ~ParseFails(df)
    /\ df' = WithDates(df)
    /\ pc' = "validate"
    /\ UNCHANGED <<uploaded_file, inv_file, bo_file, os_file, forecast_horizon,
                   valid_pns, idx, forecasts, skipped_pns, fitted,
                   all_forecast_df, agg_monthly, merged, classified, skip_report>>

\* Lines 35-43: no part has enough dates; a warning ends the run.
ValidateNone ==
    /\ pc = "validate"
    /\ ValidPNs(df) = <<>>
    /\ pc' = "done"
    /\ UNCHANGED <<uploaded_file, inv_file, bo_file, os_file, forecast_horizon,
                   df, valid_pns, idx, forecasts, skipped_pns, fitted,
                   all_forecast_df, agg_monthly, merged, classified, skip_report>>

\* Lines 35-46: the loop starts over valid_pns with empty lists.
ValidateSome ==
    /\ pc = "validate"
    /\ ValidPNs(df) # <<>>
    /\ valid_pns' = ValidPNs(df)
    /\ idx' = 1
    /\ forecasts' = <<>>
    /\ skipped_pns' = <<>>
    /\ pc' = "loop"
    /\ UNCHANGED <<uploaded_file, inv_file, bo_file, os_file, forecast_horizon,
                   df, fitted, all_forecast_df, agg_monthly, merged, classified,
                   skip_report>>

\* Lines 48-55: the pre-check skips the part.
SkipPrecheck ==
    /\ pc = "loop"
    /\ idx <= Len(valid_pns)
    /\ PreCheckSkips(Grouped(df, valid_pns[idx]))
    /\ skipped_pns' = Append(skipped_pns, valid_pns[idx])
    /\ idx' = idx + 1
    /\ UNCHANGED <<pc, uploaded_file, inv_file, bo_file, os_file, forecast_horizon,
                   df, valid_pns, forecasts, fitted, all_forecast_df, agg_monthly,
                   merged, classified, skip_report>>

\* Lines 57-71: fit, predict, resample, tail, append.
ForecastOk ==
    /\ pc = "loop"
    /\ idx <= Len(valid_pns)
    /\ ~PreCheckSkips(Grouped(df, valid_pns[idx]))
    /\ fitted' = fitted \cup {valid_pns[idx]}
    /\ forecasts' = Append(forecasts,
           ForecastMonthly(Grouped(df, valid_pns[idx]), forecast_horizon, valid_pns[idx]))
    /\ idx' = idx + 1
    /\ UNCHANGED <<pc, uploaded_file, inv_file, bo_file, os_file, forecast_horizon,
                   df, valid_pns, skipped_pns, all_forecast_df, agg_monthly,
                   merged, classified, skip_report>>

\* Mutant of ForecastRaise: the handler leaves the loop.
ForecastRaiseBreaks ==
    /\ pc = "loop"
    /\ idx <= Len(valid_pns)
    /\ ~PreCheckSkips(Grouped(df, valid_pns[idx]))
    /\ fitted' = fitted \cup {valid_pns[idx]}
    /\ skipped_pns' = Append(skipped_pns, valid_pns[idx])
    /\ idx' = Len(valid_pns) + 1
    /\ UNCHANGED <<pc, uploaded_file, inv_file, bo_file, os_file, forecast_horizon,
                   df, valid_pns, forecasts, all_forecast_df, agg_monthly,
                   merged, classified, skip_report>>

\* Lines 57-61 raise, lines 72-73 catch: the part is skipped and the loop
\* goes on.
ForecastRaise ==
    /\ pc = "loop"
    /\ idx <= Len(valid_pns)
    /\ ~PreCheckSkips(Grouped(df, valid_pns[idx]))
    /\ fitted' = fitted \cup {valid_pns[idx]}
    /\ skipped_pns' = Append(skipped_pns, valid_pns[idx])
    /\ idx' = idx + 1
    /\ UNCHANGED <<pc, uploaded_file, inv_file, bo_file, os_file, forecast_horizon,
                   df, valid_pns, forecasts, all_forecast_df, agg_monthly,
                   merged, classified, skip_report>>

\* Lines 75-76: nothing was forecast; a warning ends the run.
NoForecasts ==
    /\ pc = "loop"
    /\ idx > Len(valid_pns)
    /\ forecasts = <<>>
    /\ pc' = "done"
    /\ UNCHANGED <<uploaded_file, inv_file, bo_file, os_file, forecast_horizon,
                   df, valid_pns, idx, forecasts, skipped_pns, fitted,
                   all_forecast_df, agg_monthly, merged, classified, skip_report>>

\* Lines 78-93.
Aggregate ==
    /\ pc = "loop"
    /\ idx > Len(valid_pns)
    /\ forecasts # <<>>
    /\ all_forecast_df' = AllForecastDf(forecasts)
    /\ agg_monthly' = AggMonthly(AllForecastDf(forecasts))
    /\ pc' = "risk"
    /\ UNCHANGED <<uploaded_file, inv_file, bo_file, os_file, forecast_horizon,
                   df, valid_pns, idx, forecasts, skipped_pns, fitted,
                   merged, classified, skip_report>>

\* Lines 105-135.
RiskAnalysis ==
    /\ pc = "risk"
    /\ inv_file # <<>> /\ bo_file # <<>>
    /\ merged' = RiskTable(all_forecast_df, inv_file[1], bo_file[1])
    /\ pc' = "os"
    /\ UNCHANGED <<uploaded_file, inv_file, bo_file, os_file, forecast_horizon,
                   df, valid_pns, idx, forecasts, skipped_pns, fitted,
                   all_forecast_df, agg_monthly, classified, skip_report>>

\* Lines 175-176: an inventory or backorder file is missing.
RiskIncomplete ==
    /\ pc = "risk"
    /\ inv_file = <<>> \/ bo_file = <<>>
    /\ pc' = "report"
    /\ UNCHANGED <<uploaded_file, inv_file, bo_file, os_file, forecast_horizon,
                   df, valid_pns, idx, forecasts, skipped_pns, fitted,
                   all_forecast_df, agg_monthly, merged, classified, skip_report>>

\* Lines 138-170.
Classify ==
    /\ pc = "os"
    /\ os_file # <<>>
    /\ merged' = Reconcile(merged, os_file[1])
    /\ classified' = TRUE
    /\ pc' = "report"
    /\ UNCHANGED <<uploaded_file, inv_file, bo_file, os_file, forecast_horizon,
                   df, valid_pns, idx, forecasts, skipped_pns, fitted,
                   all_forecast_df, agg_monthly, skip_report>>

\* Line 138 false (line 172 tests the same file and never holds).
NoOsFile ==
    /\ pc = "os"
    /\ os_file = <<>>
    /\ pc' = "report"
    /\ UNCHANGED <<uploaded_file, inv_file, bo_file, os_file, forecast_horizon,
                   df, valid_pns, idx, forecasts, skipped_pns, fitted,
                   all_forecast_df, agg_monthly, merged, classified, skip_report>>

\* Lines 178-179: the skip list is shown when it is not empty.
ReportSkipped ==
    /\ pc = "report"
    /\ skip_report' = IF skipped_pns # <<>> THEN <<skipped_pns>> ELSE <<>>
    /\ pc' = "done"
    /\ UNCHANGED <<uploaded_file, inv_file, bo_file, os_file, forecast_horizon,
                   df, valid_pns, idx, forecasts, skipped_pns, fitted,
                   all_forecast_df, agg_monthly, merged, classified>>

Next ==
    \/ NoUpload
    \/ ReshapeStep
    \/ ParseDatesError
    \/ ParseDatesOk
    \/ ValidateNone
    \/ ValidateSome
    \/ SkipPrecheck
    \/ ForecastOk
    \/ ForecastRaise
    \/ NoForecasts
    \/ Aggregate
    \/ RiskAnalysis
    \/ RiskIncomplete
    \/ Classify
    \/ NoOsFile
    \/ ReportSkipped

Spec == Init /\ [][Next]_vars

----------------------------------------------------------------------------
(* State functions the properties are stated with.                         *)

\* The for loop of lines 48-73 has run over all of valid_pns.
LoopFinished ==
    \/ pc = "loop" /\ idx > Len(valid_pns)
    \/ pc \in {"risk", "os", "report"}
    \/ pc = "done" /\ valid_pns # <<>>

\* df carries parsed dates.
DatesParsed == pc \notin {"start", "parse", "error"} /\ uploaded_file # <<>>

\* Parts with a forecast in the forecasts list.
ForecastPNs == {forecasts[k][1].PN : k \in DOMAIN forecasts}

\* Parts of valid_pns that pass the pre-check of line 53.
Passing == {pn \in Range(valid_pns) : ~PreCheckSkips(Grouped(df, pn))}

\* Parts whose fit or predict raised: fit was called and no forecast came.
Raised == fitted \ ForecastPNs

CountIn(s, x) == Cardinality({k \in DOMAIN s : s[k] = x})

\* The uploaded table without the rows of part pn.
RemovePart(table, pn) ==
    [cols |-> table.cols, rows |-> SelectSeq(table.rows, LAMBDA r : r.pn # Num(pn))]

\* The forecasts list of a run on table in which the oracle never raises.
RunForecasts(table, H) ==
    LET d == WithDates(Reshape(table))
        ok == SelectSeq(ValidPNs(d), LAMBDA pn : ~PreCheckSkips(Grouped(d, pn)))
    IN Rows([k \in 1..Len(ok) |-> ForecastMonthly(Grouped(d, ok[k]), H, ok[k])])

\* C1: when the oracle raises for exactly one of the N parts that pass
\* validation, the loop still finishes, exactly the other N-1 parts have
\* forecasts, the failing part is in the skip list exactly once, and the
\* forecasts are those of a run on the input without the failing part.
C1_FailureIsolation ==
    /\ Raised # {} => pc # "error"
    /\ (LoopFinished /\ Cardinality(Raised) = 1) =>
          LET bad == CHOOSE x \in Raised : TRUE
          IN /\ ForecastPNs = Passing \ {bad}
             /\ Len(forecasts) = Cardinality(Passing) - 1
             /\ CountIn(skipped_pns, bad) = 1
             /\ Range(forecasts) = Range(RunForecasts(RemovePart(uploaded_file[1], bad), forecast_horizon))

\* Three parts pass validation, the oracle raised for the middle one only
\* and the run has ended.
C1_Witness ==
    /\ pc = "done"
    /\ valid_pns = <<1, 2, 3>>
    /\ Passing = {1, 2, 3}
    /\ Raised = {2}
    /\ Len(forecasts) = 2

\* Total quantity of part pn in the period starting at date.
PeriodTotal(d, pn, date) ==
    LET rows == SelectSeq(d, LAMBDA r : r.PN = pn /\ r.Date = date)
    IN SumSeq([j \in 1..Len(rows) |-> rows[j].SalesQty])

\* Fewer than 3 distinct periods, or fewer than 2 distinct period totals.
Insufficient(d, pn) ==
    \/ Cardinality(DatesOf(d, pn)) < 3
    \/ Cardinality({PeriodTotal(d, pn, date) : date \in DatesOf(d, pn)}) < 2

\* C2: a part whose history has fewer than 3 distinct periods, or fewer
\* than 2 distinct per-period totals, is never fitted and has no forecast
\* point in the forecast output.
C2_ValidationGate ==
    DatesParsed =>
        \A pn \in EntitiesOf(df) :
            Insufficient(df, pn) =>
                /\ pn \notin fitted
                /\ pn \notin ForecastPNs
                /\ \A k \in DOMAIN all_forecast_df : all_forecast_df[k].PN # pn

\* The run has ended with forecasts for other parts while part 1 has four
\* periods of equal totals (two rows that sum to a constant) and another
\* part has only two periods.
C2_Witness ==
    /\ pc = "done"
    /\ all_forecast_df # <<>>
    /\ 1 \in EntitiesOf(df)
    /\ Cardinality(DatesOf(df, 1)) = 4
    /\ Cardinality({k \in DOMAIN df : df[k].PN = 1}) = 8
    /\ Insufficient(df, 1)
    /\ \E pn \in EntitiesOf(df) : Cardinality(DatesOf(df, pn)) = 2

\* C3: every forecast has exactly H periods, strictly increasing, the first
\* being the month right after the last history month.
C3_ForecastFollowsHistory ==
    \A k \in DOMAIN forecasts :
        LET f == forecasts[k]
            g == Grouped(df, f[1].PN)
            lastM == MonthOfDay(g[Len(g)].ds)
        IN /\ Len(f) = forecast_horizon
           /\ \A j \in DOMAIN f : f[j].ds = MonthStart(lastM + j)

\* The risk table has been computed (lines 114-130 ran).
RiskDone == pc \in {"os", "report", "done"} /\ inv_file # <<>> /\ bo_file # <<>>
            /\ all_forecast_df # <<>>

\* The forecast rows of part pn.
ForecastRowsOf(pn) == {r \in Range(all_forecast_df) : r.PN = pn}

\* The row of part pn's latest forecast period.
IsLatest(r) == \A q \in ForecastRowsOf(r.PN) : q.Month <= r.Month

\* The value a snapshot field contributes: the record's value, 0 when the
\* value or the record is missing.
InvValues(pn) ==
    IF \E k \in DOMAIN inv_file[1] : inv_file[1][k].PN = pn
    THEN {<<IF IsNaN(r.OnHand) THEN 0 ELSE r.OnHand[1],
            IF IsNaN(r.InTransit) THEN 0 ELSE r.InTransit[1]>> :
              r \in {x \in Range(inv_file[1]) : x.PN = pn}}
    ELSE {<<0, 0>>}

BoValues(pn) ==
    IF \E k \in DOMAIN bo_file[1] : bo_file[1][k].PN = pn
    THEN {IF IsNaN(r.Backorder) THEN 0 ELSE r.Backorder[1] :
              r \in {x \in Range(bo_file[1]) : x.PN = pn}}
    ELSE {0}

\* C4: every row of the risk table has overstock_risk = (on_hand +
\* in_transit) - (backorder + forecast) and overstock_flag = (risk > 0),
\* with the forecast of the part's latest period and missing snapshot values
\* counted as 0; 100, 20, 10, 50 gives 60 and true, forecast 150 gives -40
\* and false, and a risk of 0 gives false.
C4_RiskFormula ==
    RiskDone =>
        \A k \in DOMAIN merged :
            LET r == merged[k]
            IN /\ ~IsNaN(r.ForecastQty) /\ ~IsNaN(r.OverstockRisk)
               /\ \E q \in ForecastRowsOf(r.PN) :
                      IsLatest(q) /\ q.ForecastQty = r.ForecastQty /\ q.Month = r.Month
               /\ <<r.OnHand, r.InTransit>> \in InvValues(r.PN)
               /\ r.Backorder \in BoValues(r.PN)
               /\ r.OverstockRisk[1] = (r.OnHand + r.InTransit) - (r.Backorder + r.ForecastQty[1])
               /\ r.OverstockFlag = (r.OverstockRisk[1] > 0)
               /\ (r.OnHand = 100 /\ r.InTransit = 20 /\ r.Backorder = 10 /\ r.ForecastQty[1] = 50)
                     => (r.OverstockRisk[1] = 60 /\ r.OverstockFlag = TRUE)
               /\ (r.OnHand = 100 /\ r.InTransit = 20 /\ r.Backorder = 10 /\ r.ForecastQty[1] = 150)
                     => (r.OverstockRisk[1] = -40 /\ r.OverstockFlag = FALSE)
               /\ (r.OverstockRisk[1] = 0) => (r.OverstockFlag = FALSE)

\* The risk table holds the three example rows (forecasts 50, 150 and 110
\* against 100 on hand, 20 in transit, 10 on backorder) and a row whose
\* on-hand value was missing.
C4_Witness ==
    /\ RiskDone
    /\ \E k \in DOMAIN merged :
          /\ merged[k].OnHand = 100 /\ merged[k].InTransit = 20 /\ merged[k].Backorder = 10
          /\ merged[k].ForecastQty = Num(50) /\ merged[k].OverstockRisk = Num(60)
    /\ \E k \in DOMAIN merged :
          /\ merged[k].OnHand = 100 /\ merged[k].InTransit = 20 /\ merged[k].Backorder = 10
          /\ merged[k].ForecastQty = Num(150) /\ merged[k].OverstockRisk = Num(-40)
    /\ \E k \in DOMAIN merged :
          merged[k].OverstockRisk = Num(0) /\ ~merged[k].OverstockFlag

NoDuplicateParts(recs) ==
    \A j, k \in DOMAIN recs : recs[j].PN = recs[k].PN => j = k

\* C5: with at most one record per part in each snapshot, the risk table
\* has exactly one row per forecast part and none for any other part; a
\* forecast part absent from both snapshots has zero on_hand, in_transit and
\* backorder, risk = -forecast, and flag false when its forecast is positive.
C5_RiskRowSet ==
    (RiskDone /\ NoDuplicateParts(inv_file[1]) /\ NoDuplicateParts(bo_file[1])) =>
        /\ {merged[k].PN : k \in DOMAIN merged} = ForecastPNs
        /\ NoDuplicateParts(merged)
        /\ \A k \in DOMAIN merged :
              LET r == merged[k]
              IN (/\ \A j \in DOMAIN inv_file[1] : inv_file[1][j].PN # r.PN
                  /\ \A j \in DOMAIN bo_file[1] : bo_file[1][j].PN # r.PN)
                 => /\ r.OnHand = 0 /\ r.InTransit = 0 /\ r.Backorder = 0
                    /\ r.OverstockRisk = Num(0 - r.ForecastQty[1])
                    /\ (r.ForecastQty[1] > 0 => r.OverstockFlag = FALSE)

\* The risk table exists while part 3 has an inventory record and no
\* forecast, and a forecast part with a positive forecast is in neither
\* snapshot.
C5_Witness ==
    /\ RiskDone
    /\ NoDuplicateParts(inv_file[1]) /\ NoDuplicateParts(bo_file[1])
    /\ \E j \in DOMAIN inv_file[1] : inv_file[1][j].PN = 3
    /\ 3 \notin ForecastPNs
    /\ \E k \in DOMAIN merged :
          /\ \A j \in DOMAIN inv_file[1] : inv_file[1][j].PN # merged[k].PN
          /\ \A j \in DOMAIN bo_file[1] : bo_file[1][j].PN # merged[k].PN
          /\ merged[k].ForecastQty[1] > 0

\* C6: every classified row has exactly the status its pair
\* (overstock_flag, external_flag) determines, the external flag being
\* membership in the previously-flagged set; the four pairs get four
\* different statuses.
C6_Classifier ==
    classified =>
        \A k \in DOMAIN merged :
            LET r == merged[k]
                ext == \E j \in DOMAIN os_file[1] : os_file[1][j] = Num(r.PN)
            IN /\ r.OSFlag = ext
               /\ (r.OverstockFlag /\ ext) => r.CombinedStatus = "Confirmed Overstock (AI + OS)"
               /\ (r.OverstockFlag /\ ~ext) => r.CombinedStatus = "New Overstock (AI only)"
               /\ (~r.OverstockFlag /\ ext) => r.CombinedStatus = "Previously Flagged (OS only)"
               /\ (~r.OverstockFlag /\ ~ext) => r.CombinedStatus = "Clear"
               /\ Cardinality({classify(a, b) : a, b \in BOOLEAN}) = 4

\* A classified table in which all four statuses occur.
C6_Witness ==
    /\ classified
    /\ \A st \in {"Confirmed Overstock (AI + OS)", "New Overstock (AI only)",
                  "Previously Flagged (OS only)", "Clear"} :
          \E k \in DOMAIN merged : merged[k].CombinedStatus = st

\* C7: every previously-flagged part that was never forecast appears in the
\* reconciliation output with a status other than Clear.
C7_FlaggedNotLost ==
    (classified /\ pc = "done") =>
        \A pn \in OsFlagged(os_file[1]) :
            pn \notin ForecastPNs =>
                \E k \in DOMAIN merged :
                    merged[k].PN = pn /\ merged[k].CombinedStatus # "Clear"

\* C8: when a run ends, every part of the cleaned sales history is either
\* in the forecast output or in the reported skip list, and not in both.
C8_AuditableExclusion ==
    (pc = "done" /\ uploaded_file # <<>>) =>
        \A pn \in EntitiesOf(df) :
            LET forecast == pn \in ForecastPNs
                reported == skip_report # <<>> /\ pn \in Range(skip_report[1])
            IN (forecast \/ reported) /\ ~(forecast /\ reported)

\* The aggregate forecast has been computed (lines 78-93 ran).
AggDone == pc \in {"risk", "os", "report", "done"} /\ all_forecast_df # <<>>

Reverse(q) == [k \in 1..Len(q) |-> q[Len(q) + 1 - k]]

\* Parts with a forecast point for period m.
PartsAt(m) == {pn \in ForecastPNs : \E r \in ForecastRowsOf(pn) : r.Month = m}

\* Sum over the parts of S of their forecast for period m.
RECURSIVE SumParts(_, _)
SumParts(S, m) ==
    IF S = {} THEN 0
    ELSE LET pn == CHOOSE x \in S : TRUE
             r == CHOOSE x \in ForecastRowsOf(pn) : x.Month = m
         IN r.ForecastQty[1] + SumParts(S \ {pn}, m)

\* The aggregate of the forecast rows of the parts of S, at period m (0 when
\* the aggregate has no row for m).
AggAt(S, m) ==
    LET agg == AggMonthly(SelectSeq(all_forecast_df, LAMBDA r : r.PN \in S))
    IN IF \E k \in DOMAIN agg : agg[k].Month = m
       THEN (CHOOSE x \in Range(agg) : x.Month = m).ForecastQty
       ELSE 0

\* C9: the aggregate has one row per period that occurs in some part's
\* forecast, its value is the sum over exactly the parts with a point for
\* that period, it does not depend on the order of the forecasts, and for
\* every split of the parts in two the aggregate at a period is the sum of
\* the two aggregates.
C9_Aggregation ==
    AggDone =>
        /\ {agg_monthly[k].Month : k \in DOMAIN agg_monthly}
              = {all_forecast_df[k].Month : k \in DOMAIN all_forecast_df}
        /\ \A j, k \in DOMAIN agg_monthly :
              agg_monthly[j].Month = agg_monthly[k].Month => j = k
        /\ \A k \in DOMAIN agg_monthly :
              agg_monthly[k].ForecastQty = SumParts(PartsAt(agg_monthly[k].Month), agg_monthly[k].Month)
        /\ AggMonthly(AllForecastDf(Reverse(forecasts))) = agg_monthly
        /\ \A S \in SUBSET ForecastPNs :
              \A k \in DOMAIN agg_monthly :
                  agg_monthly[k].ForecastQty
                      = AggAt(S, agg_monthly[k].Month) + AggAt(ForecastPNs \ S, agg_monthly[k].Month)

\* The aggregate has a period only one of several forecast parts
\* contributes to, and a period with two or more contributions.
C9_Witness ==
    /\ AggDone
    /\ Cardinality(ForecastPNs) >= 2
    /\ \E k \in DOMAIN agg_monthly : Cardinality(PartsAt(agg_monthly[k].Month)) = 1
    /\ \E k \in DOMAIN agg_monthly : Cardinality(PartsAt(agg_monthly[k].Month)) >= 2

\* A selected column (label starting with 2024 or 2025) does not parse as a
\* calendar month.
HasMalformedDateCol ==
    /\ uploaded_file # <<>>
    /\ \E k \in DOMAIN uploaded_file[1].cols :
          /\ IsDateCol(uploaded_file[1].cols[k])
          /\ ParseYM(uploaded_file[1].cols[k]) = <<>>

\* C10: with a malformed period label among the selected columns the run
\* ends in an input error before the oracle is called for any part.
C10_MalformedLabelRejected ==
    HasMalformedDateCol => (fitted = {} /\ pc # "done")

====
